---- MODULE Spec2Model ----
(***************************************************************************)
(* npm-fast-install: install(opts) of src/index.js as a state machine.     *)
(*                                                                         *)
(* Node.js runs one callback at a time, so every action below is one       *)
(* callback of index.js run to completion, together with everything it     *)
(* calls synchronously: async.eachLimit's completion handling, the         *)
(* dispatch of further units, a stage's final callback and the start of    *)
(* the next stage.  The effect of an external operation on the file        *)
(* system (mkdirs, rename, rsync, remove) takes place when the operation   *)
(* calls back.                                                             *)
(***************************************************************************)
EXTENDS Naturals, Sequences, FiniteSets, TLC, Bags

\* ------------------------------------------------------------------ bounds
MaxDeps == 2      \* longest dependency list of a run
MaxVer == 3       \* versions are 1..MaxVer
MaxRuns == 2      \* install() is run this many times over the same cache

\* opts.maxTasks || 5 (index.js:155)
DefaultMaxTasks == 5

Names == {"a", "b"}
Vers == 1..MaxVer

\* process.arch and modulesAPI (index.js:56-58) are fixed for a machine
arch == "x64"
modulesAPI == "48"

\* ------------------------------------------------------- versions and ranges
\* A declared version (dep.ver) is "*", "latest", or a semver range: a list of
\* comparator sets joined by "||", each a list of comparators <<op, v>> joined
\* by blanks.  op "" is a bare version ("1.0.0").
Ops == {"", ">", ">=", "<", "<="}

Star == [tag |-> "*", sets |-> <<>>]
LatestTag == [tag |-> "latest", sets |-> <<>>]
Range(sets) == [tag |-> "range", sets |-> sets]
Exact(v) == Range(<< << <<"", v>> >> >>)

\* semver.valid(dep.ver): the string is one bare version
valid(ver) ==
    /\ ver.tag = "range"
    /\ Len(ver.sets) = 1
    /\ Len(ver.sets[1]) = 1
    /\ ver.sets[1][1][1] = ""

\* the version a valid dep.ver names
literal(ver) == ver.sets[1][1][2]

\* one comparator tested against a version
Cmp(c, v) ==
    CASE c[1] = "" -> v = c[2]
      [] c[1] = ">" -> v > c[2]
      [] c[1] = ">=" -> v >= c[2]
      [] c[1] = "<" -> v < c[2]
      [] c[1] = "<=" -> v <= c[2]

\* semver's Range.test: some comparator set has all its comparators satisfied
satisfies(v, sets) ==
    \E i \in 1..Len(sets) : \A j \in 1..Len(sets[i]) : Cmp(sets[i][j], v)

\* dep.ver + ' <=' + info.version (index.js:176): the text is appended to the
\* string, so the new comparator joins the last comparator set of the range
concatLatest(sets, latest) ==
    [sets EXCEPT ![Len(sets)] = Append(@, <<"<=", latest>>)]

Max(S) == CHOOSE x \in S : \A y \in S : y <= x

\* semver.maxSatisfying(versions, range): 0 stands for null
maxSatisfying(versions, sets) ==
    LET ok == {v \in versions : satisfies(v, sets)}
    IN  IF ok = {} THEN 0 ELSE Max(ok)

\* index.js:176-177: the version the view callback resolves
resolveVer(ver, info) ==
    LET v == IF ver.tag = "*" \/ ver.tag = "latest"
             THEN info.version
             ELSE maxSatisfying(info.versions, concatLatest(ver.sets, info.version))
    IN  IF v = 0 THEN info.version ELSE v

\* path.join(cacheDir, name, ver, process.arch, modulesAPI) (index.js:165, 178)
cacheModuleDir(name, ver) == <<name, ver, arch, modulesAPI>>

Keys == {cacheModuleDir(n, v) : n \in Names, v \in Vers}

\* ------------------------------------------------------------------- state
VARIABLES
    deps,           \* the declared dependencies, a list of [name, ver] (index.js:65-102)
    registry,       \* what npm view answers for a name: [version, versions]
    maxTasks,       \* opts.maxTasks, 0 when absent
    run,            \* which invocation of install() this is
    prevOk,         \* the previous invocation's promise was fulfilled
    phase,          \* "idle", "load", "fetch", "publish", "cleanup", "end"
    promise,        \* [st, err, results]: the promise install() returned
    calls,          \* how often fulfill and reject were called
    pc,             \* where each fetch unit (one per dependency) is
    ver,            \* the version each unit resolved, 0 before that
    modules,        \* results.modules: name -> version, 0 when there is no entry
    counts,         \* counts, sourceModulesCounts, cleanUpDirsCounts
    sourceModules,  \* cache paths recorded for the publish stage
    cleanUpDirs,    \* scratch directories recorded for cleanup, by their unit
    pcP,            \* where each publish unit (one per sourceModules item) is
    pcC,            \* where each cleanup unit (one per cleanUpDirs item) is
    cache,          \* the cache tree: path -> "absent", "empty", "partial", "full"
    scratch,        \* each unit's tmpDir: "none", "empty", "built", "moved", "removed"
    dest,           \* node_modules: what was copied into it from each cache path
    cache0,         \* history: the cache tree when the run started
    viewed,         \* history: the unit called npm.commands.view
    fetched,        \* history: the unit called npm.commands.install
    atStart,        \* history: the state of the unit's literal cache path when it started
    lastCheck,      \* history: what the unit's latest existence check found
    written,        \* history: <<unit, path>> for every cache path a unit created,
                    \* renamed onto or copied into
    copyCalls,      \* history: the calls of copyDir, with what existed at the call
    late,           \* history: units that called back after their stage had ended
    cbs,            \* history: the bag of <<stage, unit>>, one copy for every time
                    \* the unit's callback was called
    firstErr        \* history: the first error a unit passed to its callback

vars == <<deps, registry, maxTasks, run, prevOk, phase, promise, calls, pc, ver,
          modules, counts, sourceModules, cleanUpDirs, pcP, pcC, cache, scratch,
          dest, cache0, viewed, fetched, atStart, lastCheck, written, copyCalls,
          late, cbs, firstErr>>

inputs == <<deps, registry>>

NoErr == <<"none", 0>>
Units == 1..Len(deps)

\* The state a callback works on, as one record
S == [phase |-> phase, promise |-> promise, calls |-> calls, pc |-> pc, ver |-> ver,
      modules |-> modules, counts |-> counts, sourceModules |-> sourceModules,
      cleanUpDirs |-> cleanUpDirs, pcP |-> pcP, pcC |-> pcC, cache |-> cache,
      scratch |-> scratch, dest |-> dest, viewed |-> viewed, fetched |-> fetched,
      atStart |-> atStart, lastCheck |-> lastCheck, written |-> written,
      copyCalls |-> copyCalls, late |-> late, cbs |-> cbs, firstErr |-> firstErr]

Set(s) ==
    /\ phase' = s.phase
    /\ promise' = s.promise
    /\ calls' = s.calls
    /\ pc' = s.pc
    /\ ver' = s.ver
    /\ modules' = s.modules
    /\ counts' = s.counts
    /\ sourceModules' = s.sourceModules
    /\ cleanUpDirs' = s.cleanUpDirs
    /\ pcP' = s.pcP
    /\ pcC' = s.pcC
    /\ cache' = s.cache
    /\ scratch' = s.scratch
    /\ dest' = s.dest
    /\ viewed' = s.viewed
    /\ fetched' = s.fetched
    /\ atStart' = s.atStart
    /\ lastCheck' = s.lastCheck
    /\ written' = s.written
    /\ copyCalls' = s.copyCalls
    /\ late' = s.late
    /\ cbs' = s.cbs
    /\ firstErr' = s.firstErr

\* ----------------------------------------------------------------- helpers
\* existsSync with a fault: the check looks at a path that is never there
existsSyncNever(c, dir) == FALSE

\* fs.existsSync on a cache path
existsSync(c, dir) == c[dir] # "absent"

\* fs.existsSync on a unit's tmpDir, and on tmpDir/node_modules
tmpExists(sc, t) == sc[t] \in {"empty", "built", "moved"}
srcExists(sc, t) == sc[t] = "built"

\* Limit with a fault: opts.maxTasks is not read
LimitIgnoresMaxTasks == DefaultMaxTasks

\* opts.maxTasks || 5 (index.js:155, 246, 267)
Limit == IF maxTasks = 0 THEN DefaultMaxTasks ELSE maxTasks

\* units eachLimit has started and that have not called back
Running(p) == Cardinality({i \in DOMAIN p : p[i] \notin {"queued", "done", "failed"}})

\* the next item eachLimit would start, 0 when none is left
NextQueued(p) ==
    LET q == {i \in DOMAIN p : p[i] = "queued"}
    IN  IF q = {} THEN 0 ELSE CHOOSE i \in q : \A j \in q : i <= j

\* fulfill(results) and reject(err): a promise keeps its first settlement
fulfill(s) ==
    [s EXCEPT !.calls.fulfill = @ + 1,
              !.promise = IF @.st = "pending"
                          THEN [st |-> "fulfilled", err |-> NoErr, results |-> s.modules]
                          ELSE @]

reject(s, err) ==
    [s EXCEPT !.calls.reject = @ + 1,
              !.promise = IF @.st = "pending"
                          THEN [st |-> "rejected", err |-> err, results |-> @.results]
                          ELSE @]

\* copyDir (index.js:309-322): what it does with the callback it is given.
\* "rsync": rsync runs and calls back later; "error": cb is called at once with
\* 'Source file not found'; "none": neither branch is taken, cb is never called
copyDir(srcThere, destThere) ==
    IF srcThere THEN "rsync"
    ELSE IF ~destThere THEN "error"
    ELSE "none"

\* ------------------------------------------------------------ the three stages
\* fetchIteratee with a fault: the fast-path check is left out
fetchIterateeNoFastPath(s, t) ==
    LET dep == deps[t]
        found == IF valid(dep.ver)
                 THEN s.cache[cacheModuleDir(dep.name, literal(dep.ver))]
                 ELSE "none"
    IN  [s EXCEPT !.atStart[t] = found, !.lastCheck[t] = found,
                  !.pc[t] = "view", !.viewed[t] = TRUE]

\* The iterator of the fetch stage up to its first asynchronous call
\* (index.js:157-172): the fast-path check, else npm.commands.view is called.
fetchIteratee(s, t) ==
    LET dep == deps[t]
        found == IF valid(dep.ver)
                 THEN s.cache[cacheModuleDir(dep.name, literal(dep.ver))]
                 ELSE "none"
        s0 == [s EXCEPT !.atStart[t] = found, !.lastCheck[t] = found]
    IN  IF valid(dep.ver)
           /\ existsSync(s.cache, cacheModuleDir(dep.name, literal(dep.ver)))
        THEN [s0 EXCEPT !.sourceModules =
                            Append(@, cacheModuleDir(dep.name, literal(dep.ver))),
                        !.counts.fetch = @ + 1,
                        !.cbs = @ (+) SetToBag({<<"fetch", t>>}),
                        !.pc[t] = "done"]
        ELSE [s0 EXCEPT !.pc[t] = "view", !.viewed[t] = TRUE]

\* The iterator of the publish stage (index.js:246-256): copyDir(src,
\* destNodeModulesDir, _cb_); destNodeModulesDir exists since index.js:135
publishIteratee(s, i) ==
    LET srcThere == existsSync(s.cache, s.sourceModules[i])
        how == copyDir(srcThere, TRUE)
        s1 == [s EXCEPT !.copyCalls = @ \cup {[site |-> "publish", unit |-> i,
                                               src |-> srcThere, dst |-> TRUE]}]
    IN  CASE how = "rsync" -> [s1 EXCEPT !.pcP[i] = "copy"]
          [] how = "error" -> [s1 EXCEPT !.pcP[i] = "failed",
                                         !.counts.publish = @ + 1,
                                         !.cbs = @ (+) SetToBag({<<"publish", i>>}),
                                         !.firstErr = IF @ = NoErr
                                                      THEN <<"nosrc", i>> ELSE @]
          [] how = "none" -> [s1 EXCEPT !.pcP[i] = "hung"]

\* The iterator of the cleanup stage (index.js:267-284)
cleanupIteratee(s, j) ==
    IF tmpExists(s.scratch, s.cleanUpDirs[j])
    THEN [s EXCEPT !.pcC[j] = "remove"]
    ELSE [s EXCEPT !.pcC[j] = "done", !.counts.cleanup = @ + 1,
                   !.cbs = @ (+) SetToBag({<<"cleanup", j>>})]

\* The final callback of the cleanup stage (index.js:285-290)
cleanupFinal(s, err) ==
    IF err # NoErr
    THEN reject([s EXCEPT !.phase = "end"], err)
    ELSE fulfill([s EXCEPT !.phase = "end"])

RECURSIVE replenish(_), publishFinal(_, _), fetchFinal(_, _)

\* async.eachLimit's dispatch loop for the stage that is running: start items in
\* order while fewer than the limit are running; when none is left and none is
\* running, call the stage's final callback without an error
replenish(s) ==
    CASE s.phase = "fetch" ->
           LET t == NextQueued(s.pc)
           IN  IF t # 0 /\ Running(s.pc) < Limit
               THEN replenish(fetchIteratee(s, t))
               ELSE IF t = 0 /\ Running(s.pc) = 0
               THEN fetchFinal(s, NoErr)
               ELSE s
      [] s.phase = "publish" ->
           LET i == NextQueued(s.pcP)
           IN  IF i # 0 /\ Running(s.pcP) < Limit
               THEN LET s1 == publishIteratee(s, i)
                    IN  IF s1.pcP[i] = "failed"
                        THEN publishFinal(s1, <<"nosrc", i>>)
                        ELSE replenish(s1)
               ELSE IF i = 0 /\ Running(s.pcP) = 0
               THEN publishFinal(s, NoErr)
               ELSE s
      [] s.phase = "cleanup" ->
           LET j == NextQueued(s.pcC)
           IN  IF j # 0 /\ Running(s.pcC) < Limit
               THEN replenish(cleanupIteratee(s, j))
               ELSE IF j = 0 /\ Running(s.pcC) = 0
               THEN cleanupFinal(s, NoErr)
               ELSE s
      [] OTHER -> s

\* The final callback of the publish stage (index.js:257-295)
publishFinal(s, err) ==
    IF err # NoErr
    THEN reject([s EXCEPT !.phase = "end"], err)
    ELSE IF Len(s.cleanUpDirs) > 0
    THEN replenish([s EXCEPT !.phase = "cleanup",
                             !.pcC = [j \in 1..Len(s.cleanUpDirs) |-> "queued"]])
    ELSE fulfill([s EXCEPT !.phase = "end"])

\* fetchFinal with a fault: the error is not looked at
fetchFinalIgnoresErr(s, err) ==
    replenish([s EXCEPT !.phase = "publish",
                        !.pcP = [i \in 1..Len(s.sourceModules) |-> "queued"]])

\* The final callback of the fetch stage (index.js:236-297)
fetchFinal(s, err) ==
    IF err # NoErr
    THEN reject([s EXCEPT !.phase = "end"], err)
    ELSE replenish([s EXCEPT !.phase = "publish",
                             !.pcP = [i \in 1..Len(s.sourceModules) |-> "queued"]])

\* onlyOnce with a fault: an error of a unit is taken for a success
onlyOnceKeepsGoing(s, stage, err) ==
    IF s.phase # stage THEN s ELSE replenish(s)

\* What async.eachLimit does when a unit of `stage` calls back with `err`: the
\* first error goes to the stage's final callback at once and nothing more is
\* started; a success starts the next items; after the final callback was
\* called, a callback of a unit still in flight changes nothing
onlyOnce(s, stage, err) ==
    IF s.phase # stage THEN s
    ELSE IF err = NoErr THEN replenish(s)
    ELSE CASE stage = "fetch" -> fetchFinal(s, err)
           [] stage = "publish" -> publishFinal(s, err)
           [] stage = "cleanup" -> cleanupFinal(s, err)

\* cb(err) and cb__(err, message) of a fetch unit (index.js:157-161)
cb(s, t, err) ==
    onlyOnce([s EXCEPT !.pc[t] = IF err = NoErr THEN "done" ELSE "failed",
                       !.late = IF s.phase # "fetch" THEN @ \cup {<<"fetch", t>>} ELSE @,
                       !.cbs = @ (+) SetToBag({<<"fetch", t>>}),
                       !.firstErr = IF @ = NoErr THEN err ELSE @],
             "fetch", err)

cb__(s, t, err) == cb([s EXCEPT !.counts.fetch = @ + 1], t, err)

\* _cb_(err, message) of a publish unit (index.js:248-252)
_cb_(s, i, err) ==
    onlyOnce([s EXCEPT !.pcP[i] = IF err = NoErr THEN "done" ELSE "failed",
                       !.counts.publish = @ + 1,
                       !.late = IF s.phase # "publish"
                                THEN @ \cup {<<"publish", i>>} ELSE @,
                       !.cbs = @ (+) SetToBag({<<"publish", i>>}),
                       !.firstErr = IF @ = NoErr THEN err ELSE @],
             "publish", err)

\* __cb__(err, message) of a cleanup unit (index.js:269-273)
__cb__(s, j, err) ==
    onlyOnce([s EXCEPT !.pcC[j] = IF err = NoErr THEN "done" ELSE "failed",
                       !.counts.cleanup = @ + 1,
                       !.late = IF s.phase # "cleanup"
                                THEN @ \cup {<<"cleanup", j>>} ELSE @,
                       !.cbs = @ (+) SetToBag({<<"cleanup", j>>}),
                       !.firstErr = IF @ = NoErr THEN err ELSE @],
             "cleanup", err)

\* ------------------------------------------------------------------ callbacks
\* install(opts) up to npm.load (index.js:40-138)
installStart(s, cfg, keep) ==
    IF cfg = "baddir" THEN reject([s EXCEPT !.phase = "end"], <<"baddir", 0>>)
    ELSE IF cfg = "nopkg" THEN reject([s EXCEPT !.phase = "end"], <<"nopkg", 0>>)
    ELSE IF Len(deps) = 0 THEN fulfill([s EXCEPT !.phase = "end"])
    ELSE [s EXCEPT !.phase = "load",
                   !.dest = IF keep THEN @ ELSE [k \in Keys |-> "absent"]]

\* the callback of npm.load (index.js:149-155)
loadCallback(s, ok) ==
    IF ~ok THEN [s EXCEPT !.phase = "end"]
    ELSE replenish([s EXCEPT !.phase = "fetch"])

\* viewCallback with a fault: tmpDir is not pushed to cleanUpDirs
viewCallbackNoCleanUp(s, t, ok) ==
    IF ~ok THEN cb(s, t, <<"view", t>>)
    ELSE
      LET dep == deps[t]
          v == resolveVer(dep.ver, registry[dep.name])
          dir == cacheModuleDir(dep.name, v)
          s1 == [s EXCEPT !.ver[t] = v,
                          !.modules[dep.name] = v,
                          !.lastCheck[t] = s.cache[dir]]
      IN  IF existsSync(s.cache, dir)
          THEN cb__([s1 EXCEPT !.sourceModules = Append(@, dir)], t, NoErr)
          ELSE [s1 EXCEPT !.scratch[t] = "empty",
                          !.fetched[t] = TRUE,
                          !.pc[t] = "install"]

\* viewCallback with a fault: the check of the resolved cache path is left out
viewCallbackNoCheck(s, t, ok) ==
    IF ~ok THEN cb(s, t, <<"view", t>>)
    ELSE
      LET dep == deps[t]
          v == resolveVer(dep.ver, registry[dep.name])
      IN  [s EXCEPT !.ver[t] = v,
                    !.modules[dep.name] = v,
                    !.scratch[t] = "empty",
                    !.cleanUpDirs = Append(@, t),
                    !.fetched[t] = TRUE,
                    !.pc[t] = "install"]

\* the callback of npm.commands.view (index.js:172-200)
viewCallback(s, t, ok) ==
    IF ~ok THEN cb(s, t, <<"view", t>>)
    ELSE
      LET dep == deps[t]
          v == resolveVer(dep.ver, registry[dep.name])
          dir == cacheModuleDir(dep.name, v)
          s1 == [s EXCEPT !.ver[t] = v,
                          !.modules[dep.name] = v,
                          !.lastCheck[t] = s.cache[dir]]
      IN  IF existsSync(s.cache, dir)
          THEN cb__([s1 EXCEPT !.sourceModules = Append(@, dir)], t, NoErr)
          ELSE [s1 EXCEPT !.scratch[t] = "empty",
                          !.cleanUpDirs = Append(@, t),
                          !.fetched[t] = TRUE,
                          !.pc[t] = "install"]

\* installCallback with a fault: the path is looked at after the fetch, but the
\* unit goes on to fs.mkdirs whatever it found
installCallbackNoCheck(s, t, ok) ==
    IF ~ok THEN cb(s, t, <<"install", t>>)
    ELSE
      LET dir == cacheModuleDir(deps[t].name, s.ver[t])
      IN  [s EXCEPT !.scratch[t] = "built", !.lastCheck[t] = s.cache[dir],
                    !.pc[t] = "mkdirs"]

\* the callback of npm.commands.install (index.js:200-212); a successful
\* install has put the package under tmpDir/node_modules
installCallback(s, t, ok) ==
    IF ~ok THEN cb(s, t, <<"install", t>>)
    ELSE
      LET dir == cacheModuleDir(deps[t].name, s.ver[t])
          s1 == [s EXCEPT !.scratch[t] = "built", !.lastCheck[t] = s.cache[dir]]
      IN  IF existsSync(s.cache, dir)
          THEN cb__(s1, t, NoErr)
          ELSE [s1 EXCEPT !.pc[t] = "mkdirs"]

\* mkdirsCallback with a fault: the error is passed to cb__ and the unit goes
\* on to fs.rename all the same
mkdirsCallbackNoReturn(s, t, ok) ==
    LET dir == cacheModuleDir(deps[t].name, s.ver[t])
    IN  IF ~ok
        THEN [cb__(s, t, <<"mkdirs", t>>) EXCEPT !.pc[t] = "rename"]
        ELSE [s EXCEPT !.cache[dir] = IF @ = "absent" THEN "empty" ELSE @,
                       !.written = @ \cup {<<t, dir>>},
                       !.pc[t] = "rename"]

\* the callback of fs.mkdirs (index.js:212-217); mkdirs leaves an existing
\* directory as it is
mkdirsCallback(s, t, ok) ==
    IF ~ok THEN cb__(s, t, <<"mkdirs", t>>)
    ELSE
      LET dir == cacheModuleDir(deps[t].name, s.ver[t])
      IN  [s EXCEPT !.cache[dir] = IF @ = "absent" THEN "empty" ELSE @,
                    !.written = @ \cup {<<t, dir>>},
                    !.pc[t] = "rename"]

\* renameCallback with a fault: the moved entry is not pushed to sourceModules
renameCallbackNoRecord(s, t, ok) ==
    LET dir == cacheModuleDir(deps[t].name, s.ver[t])
    IN  IF ok
        THEN cb__([s EXCEPT !.cache[dir] = "full",
                            !.scratch[t] = "moved",
                            !.written = @ \cup {<<t, dir>>}], t, NoErr)
        ELSE [s EXCEPT !.pc[t] = "copy"]

\* the callback of fs.rename (index.js:217-231); a rename that succeeded has
\* moved tmpDir/node_modules onto the cache path
renameCallback(s, t, ok) ==
    LET dir == cacheModuleDir(deps[t].name, s.ver[t])
    IN  IF ok
        THEN cb__([s EXCEPT !.cache[dir] = "full",
                            !.scratch[t] = "moved",
                            !.written = @ \cup {<<t, dir>>},
                            !.sourceModules = Append(@, dir)], t, NoErr)
        ELSE LET srcThere == srcExists(s.scratch, t)
                 dstThere == existsSync(s.cache, dir)
                 how == copyDir(srcThere, dstThere)
                 s1 == [s EXCEPT !.copyCalls = @ \cup {[site |-> "fetch", unit |-> t,
                                                        src |-> srcThere,
                                                        dst |-> dstThere]}]
             IN  CASE how = "rsync" -> [s1 EXCEPT !.pc[t] = "copy"]
                   [] how = "error" -> cb__(s1, t, <<"nosrc", t>>)
                   [] how = "none" -> [s1 EXCEPT !.pc[t] = "hung"]

\* copyCallback with a fault: the path is pushed to sourceModules whether or
\* not the copy failed
copyCallbackAlwaysRecords(s, t, ok, part) ==
    LET dir == cacheModuleDir(deps[t].name, s.ver[t])
    IN  IF ok
        THEN cb__([s EXCEPT !.cache[dir] = "full",
                            !.written = @ \cup {<<t, dir>>},
                            !.sourceModules = Append(@, dir)], t, NoErr)
        ELSE cb__([s EXCEPT !.cache[dir] = IF part /\ @ \in {"absent", "empty"}
                                           THEN "partial" ELSE @,
                            !.written = IF part THEN @ \cup {<<t, dir>>} ELSE @,
                            !.sourceModules = Append(@, dir)],
                  t, <<"copy", t>>)

\* the callback of copyDir in the fetch stage (index.js:220-225); rsync merges
\* the package into the cache path, and a failed rsync may have copied a part
copyCallback(s, t, ok, part) ==
    LET dir == cacheModuleDir(deps[t].name, s.ver[t])
    IN  IF ok
        THEN cb__([s EXCEPT !.cache[dir] = "full",
                            !.written = @ \cup {<<t, dir>>},
                            !.sourceModules = Append(@, dir)], t, NoErr)
        ELSE cb__([s EXCEPT !.cache[dir] = IF part /\ @ \in {"absent", "empty"}
                                           THEN "partial" ELSE @,
                            !.written = IF part THEN @ \cup {<<t, dir>>} ELSE @],
                  t, <<"copy", t>>)

\* what a copy of a cache path adds to what node_modules holds of it
merge(old, new) ==
    IF old = "full" \/ new = "full" THEN "full"
    ELSE IF old = "partial" \/ new = "partial" THEN "partial"
    ELSE IF old = "empty" \/ new = "empty" THEN "empty"
    ELSE "absent"

\* the callback of copyDir in the publish stage (index.js:255)
publishCallback(s, i, ok) ==
    LET src == s.sourceModules[i]
    IN  IF ok
        THEN _cb_([s EXCEPT !.dest[src] = merge(@, s.cache[src])], i, NoErr)
        ELSE _cb_(s, i, <<"rsync", i>>)

\* the callback of fs.remove (index.js:277-279)
removeCallback(s, j, ok) ==
    IF ok
    THEN __cb__([s EXCEPT !.scratch[s.cleanUpDirs[j]] = "removed"], j, NoErr)
    ELSE __cb__(s, j, <<"remove", j>>)

\* ------------------------------------------------------------- specification
\* the dependency lists of at most MaxDeps entries drawn from a pool, each
\* entry declared once; a name can come up again with another range, as it does
\* when dependencies and devDependencies both declare it (index.js:84-100)
DepLists(pool) ==
    {d \in UNION {[1..n -> pool] : n \in 0..MaxDeps} :
        \A i, j \in DOMAIN d : d[i] = d[j] => i = j}

\* the registry of the pipeline runs: "a" has every version published and an
\* older one tagged latest, "b" has one version
Registry ==
    [nm \in Names |->
        IF nm = "a" THEN [version |-> MaxVer - 1, versions |-> Vers]
        ELSE [version |-> 1, versions |-> {1}]]

\* an exact version, a wildcard that resolves to the same version, and a range
\* that no version satisfies
DepPool ==
    {[name |-> "a", ver |-> Exact(MaxVer - 1)],
     [name |-> "a", ver |-> Star],
     [name |-> "b", ver |-> Range(<< << <<">", MaxVer>> >> >>)]}

\* opts.maxTasks: absent (0), or a limit that makes the last dependency wait
TaskLimits == {0, MaxDeps - 1}

\* the state install() starts from, all but the inputs and the file system
fresh ==
    [phase |-> "idle",
     promise |-> [st |-> "pending", err |-> NoErr, results |-> [nm \in Names |-> 0]],
     calls |-> [fulfill |-> 0, reject |-> 0],
     pc |-> [t \in Units |-> "queued"],
     ver |-> [t \in Units |-> 0],
     modules |-> [nm \in Names |-> 0],
     counts |-> [fetch |-> 0, publish |-> 0, cleanup |-> 0],
     sourceModules |-> <<>>,
     cleanUpDirs |-> <<>>,
     pcP |-> <<>>,
     pcC |-> <<>>,
     scratch |-> [t \in Units |-> "none"],
     viewed |-> [t \in Units |-> FALSE],
     fetched |-> [t \in Units |-> FALSE],
     atStart |-> [t \in Units |-> "none"],
     lastCheck |-> [t \in Units |-> "none"],
     written |-> {},
     copyCalls |-> {},
     late |-> {},
     cbs |-> EmptyBag,
     firstErr |-> NoErr]

\* the variables of a run hold the record s, but for the file system
Is(s) ==
    /\ phase = s.phase
    /\ promise = s.promise
    /\ calls = s.calls
    /\ pc = s.pc
    /\ ver = s.ver
    /\ modules = s.modules
    /\ counts = s.counts
    /\ sourceModules = s.sourceModules
    /\ cleanUpDirs = s.cleanUpDirs
    /\ pcP = s.pcP
    /\ pcC = s.pcC
    /\ scratch = s.scratch
    /\ viewed = s.viewed
    /\ fetched = s.fetched
    /\ atStart = s.atStart
    /\ lastCheck = s.lastCheck
    /\ written = s.written
    /\ copyCalls = s.copyCalls
    /\ late = s.late
    /\ cbs = s.cbs
    /\ firstErr = s.firstErr

Init ==
    /\ deps \in DepLists(DepPool)
    /\ registry = Registry
    /\ run = 1
    /\ prevOk = FALSE
    /\ cache = [k \in Keys |-> "absent"]
    /\ cache0 = cache
    /\ dest = [k \in Keys |-> "absent"]
    /\ maxTasks = 0
    /\ Is(fresh)

Pending == {"view", "install", "mkdirs", "rename", "copy"}

\* nothing is left that could call back: the process ends
Quiescent ==
    /\ phase \notin {"idle", "load"}
    /\ \A t \in Units : pc[t] \notin Pending
    /\ \A i \in DOMAIN pcP : pcP[i] # "copy"
    /\ \A j \in DOMAIN pcC : pcC[j] # "remove"

Start ==
    /\ phase = "idle"
    /\ \E cfg \in {"ok", "baddir", "nopkg"}, mt \in TaskLimits, keep \in BOOLEAN :
          /\ maxTasks' = mt
          /\ Set(installStart(S, cfg, keep))
    /\ UNCHANGED <<inputs, run, prevOk, cache0>>

Load ==
    /\ phase = "load"
    /\ \E ok \in BOOLEAN : Set(loadCallback(S, ok))
    /\ UNCHANGED <<inputs, maxTasks, run, prevOk, cache0>>

View ==
    /\ \E t \in Units, ok \in BOOLEAN :
          /\ pc[t] = "view"
          /\ Set(viewCallback(S, t, ok))
    /\ UNCHANGED <<inputs, maxTasks, run, prevOk, cache0>>

Install ==
    /\ \E t \in Units, ok \in BOOLEAN :
          /\ pc[t] = "install"
          /\ Set(installCallback(S, t, ok))
    /\ UNCHANGED <<inputs, maxTasks, run, prevOk, cache0>>

Mkdirs ==
    /\ \E t \in Units, ok \in BOOLEAN :
          /\ pc[t] = "mkdirs"
          /\ Set(mkdirsCallback(S, t, ok))
    /\ UNCHANGED <<inputs, maxTasks, run, prevOk, cache0>>

\* rename succeeds only with a source that exists and a target that is absent
\* or an empty directory; it may fail in any case (another partition)
Rename ==
    /\ \E t \in Units, ok \in BOOLEAN :
          /\ pc[t] = "rename"
          /\ ok => /\ srcExists(scratch, t)
                   /\ cache[cacheModuleDir(deps[t].name, ver[t])] \in {"absent", "empty"}
          /\ Set(renameCallback(S, t, ok))
    /\ UNCHANGED <<inputs, maxTasks, run, prevOk, cache0>>

Copy ==
    /\ \E t \in Units, ok \in BOOLEAN, part \in BOOLEAN :
          /\ pc[t] = "copy"
          /\ ok => ~part
          /\ Set(copyCallback(S, t, ok, part))
    /\ UNCHANGED <<inputs, maxTasks, run, prevOk, cache0>>

Publish ==
    /\ \E i \in DOMAIN pcP, ok \in BOOLEAN :
          /\ pcP[i] = "copy"
          /\ Set(publishCallback(S, i, ok))
    /\ UNCHANGED <<inputs, maxTasks, run, prevOk, cache0>>

Remove ==
    /\ \E j \in DOMAIN pcC, ok \in BOOLEAN :
          /\ pcC[j] = "remove"
          /\ Set(removeCallback(S, j, ok))
    /\ UNCHANGED <<inputs, maxTasks, run, prevOk, cache0>>

\* the process has ended and install() is called again on the same project,
\* with the cache and node_modules as the earlier run left them
NewRun ==
    /\ Quiescent
    /\ run < MaxRuns
    /\ UNCHANGED inputs
    /\ run' = run + 1
    /\ prevOk' = (promise.st = "fulfilled")
    /\ cache0' = cache
    /\ maxTasks' = 0
    /\ Set(fresh @@ [cache |-> cache, dest |-> dest])

Next ==
    \/ Start
    \/ Load
    \/ View
    \/ Install
    \/ Mkdirs
    \/ Rename
    \/ Copy
    \/ Publish
    \/ Remove
    \/ NewRun

Spec == Init /\ [][Next]_vars

\* --------------------------------------------- copyDir on any file system
\* copyDir's answer depends on what exists when it is called, and the cache and
\* the scratch directories are open to other processes.  This specification
\* starts a run at the point where unit 1 has recorded its cache path on a
\* fast-path hit and unit 2 waits for fs.rename, with the two cache paths and
\* unit 2's node_modules in any state, and goes on as Spec does.
copyDeps == <<[name |-> "a", ver |-> Exact(MaxVer - 1)], [name |-> "b", ver |-> Star]>>

InitCopyDir ==
    /\ deps = copyDeps
    /\ registry = Registry
    /\ maxTasks = 0
    /\ run = 1
    /\ prevOk = FALSE
    /\ \E c1 \in {"absent", "full"}, c2 \in {"absent", "empty", "partial", "full"} :
          cache = [k \in Keys |->
                      IF k = cacheModuleDir("a", MaxVer - 1) THEN c1
                      ELSE IF k = cacheModuleDir("b", 1) THEN c2
                      ELSE "absent"]
    /\ cache0 = [k \in Keys |->
                    IF k = cacheModuleDir("a", MaxVer - 1) THEN "full" ELSE "absent"]
    /\ dest = [k \in Keys |-> "absent"]
    /\ \E sc \in {"empty", "built"} :
          Is([fresh EXCEPT
                !.phase = "fetch",
                !.pc = <<"done", "rename">>,
                !.ver = <<0, 1>>,
                !.modules = [nm \in Names |-> IF nm = "b" THEN 1 ELSE 0],
                !.counts.fetch = 1,
                !.sourceModules = <<cacheModuleDir("a", MaxVer - 1)>>,
                !.cleanUpDirs = <<2>>,
                !.scratch = <<"none", sc>>,
                !.viewed = <<FALSE, TRUE>>,
                !.fetched = <<FALSE, TRUE>>,
                !.atStart = <<"full", "none">>,
                !.lastCheck = <<"full", "absent">>,
                !.written = {<<2, cacheModuleDir("b", 1)>>},
                !.cbs = SetToBag({<<"fetch", 1>>})])

SpecCopyDir == InitCopyDir /\ [][Next]_vars

\* ------------------------------------------- version selection on any registry
\* The ranges of one or two comparator sets the resolution is tried on
Comparators == Ops \X Vers

RangePool ==
    {Star, LatestTag, Range(<< <<>> >>)}
        \cup {Range(<< <<c>> >>) : c \in Comparators}
        \cup {Range(<< <<c>>, <<d>> >>) :
                c \in {">=", ""} \X Vers, d \in {">=", ""} \X Vers}

\* one dependency "a" with any range of the pool, and any set of published
\* versions of "a" with any of them tagged latest
InitResolve ==
    /\ \E r \in RangePool : deps = <<[name |-> "a", ver |-> r]>>
    /\ \E V \in SUBSET Vers : \E l \in V :
          registry = [nm \in Names |->
                         IF nm = "a" THEN [version |-> l, versions |-> V]
                         ELSE [version |-> 1, versions |-> {1}]]
    /\ run = 1
    /\ prevOk = FALSE
    /\ cache = [k \in Keys |-> "absent"]
    /\ cache0 = cache
    /\ dest = [k \in Keys |-> "absent"]
    /\ maxTasks = 0
    /\ Is(fresh)

SpecResolve == InitResolve /\ [][Next]_vars

\* ------------------------------------------------------------------- claims
\* the cache path a unit stands for: the literal one of a fast-path hit, the
\* resolved one otherwise
pathOf(t) ==
    IF ver[t] = 0
    THEN cacheModuleDir(deps[t].name, literal(deps[t].ver))
    ELSE cacheModuleDir(deps[t].name, ver[t])

Recorded(dir) == \E i \in DOMAIN sourceModules : sourceModules[i] = dir

\* C1 (as claimed): every directory at a cache path holds a complete package,
\* and no existence check of a unit found an empty or partly filled directory.
C1_CacheNeverCorrupt ==
    /\ \A k \in Keys : cache[k] \in {"absent", "full"}
    /\ \A t \in Units : lastCheck[t] \notin {"empty", "partial"}

\* C2 (as claimed): of two units of a run that resolved to the same cache
\* path, at most one called npm.commands.install.
C2_AtMostOneFetch ==
    \A t, u \in Units :
        (t # u /\ ver[t] # 0 /\ ver[u] # 0 /\ pathOf(t) = pathOf(u))
            => ~(fetched[t] /\ fetched[u])

\* C2 (amended): a unit calls npm.commands.install only in a step in which
\* its resolved cache path is absent, so a unit whose check runs once the
\* path exists observes the entry and skips the fetch.
C2_FetchOnlyOnMiss ==
    [][\A t \in Units :
          (fetched'[t] /\ ~fetched[t])
              => cache[<<deps[t].name, ver'[t], arch, modulesAPI>>] = "absent"]_vars

\* C2 witness: two units share a cache path, one fetched it, the other found
\* it and finished without fetching.
C2_Witness ==
    \E t, u \in Units :
        /\ t # u /\ ver[t] # 0 /\ ver[u] # 0 /\ pathOf(t) = pathOf(u)
        /\ fetched[t] /\ ~fetched[u]
        /\ pc[u] = "done" /\ lastCheck[u] = "full"

\* C3: once a fetch unit has passed an error to its callback, the promise is
\* rejected with the first such error and fulfill has not been called,
\* whatever the other units do afterwards.
C3_FailFast ==
    (firstErr # NoErr /\ firstErr[1] \in {"view", "install", "mkdirs", "copy"})
        => /\ promise.st = "rejected"
           /\ promise.err = firstErr
           /\ calls.fulfill = 0

\* C3 witness: the run was rejected with a unit's error and another unit,
\* in flight at that time, completed successfully afterwards.
C3_Witness ==
    /\ promise.st = "rejected"
    /\ promise.err = firstErr
    /\ \E a \in Units : <<"fetch", a>> \in late /\ pc[a] = "done" /\ firstErr[2] # a

\* units of a stage that were started and have not called back
InFlight(p) == {i \in DOMAIN p : p[i] \notin {"queued", "done", "failed"}}

\* C5: in each of the three stages at most opts.maxTasks units, 5 when
\* maxTasks is absent or zero, have been started and have not called back.
C5_BoundedConcurrency ==
    LET limit == IF maxTasks = 0 THEN 5 ELSE maxTasks
    IN  /\ Cardinality(InFlight(pc)) <= limit
        /\ Cardinality(InFlight(pcP)) <= limit
        /\ Cardinality(InFlight(pcC)) <= limit

\* C5 witness: as many units as the limit allows are in flight and a further
\* dependency waits.
C5_Witness ==
    /\ maxTasks # 0
    /\ Cardinality(InFlight(pc)) = maxTasks
    /\ \E t \in Units : pc[t] = "queued"

\* C6: when the run is fulfilled, the cache path of every dependency is an
\* item of sourceModules whose copy into node_modules completed.
C6_EveryEntryPublished ==
    promise.st = "fulfilled"
        => \A t \in Units :
              /\ \E i \in DOMAIN sourceModules :
                    sourceModules[i] = pathOf(t) /\ pcP[i] = "done"
              /\ dest[pathOf(t)] # "absent"

\* C6 witness: a fulfilled run in which a unit fetched, found the path present
\* after the fetch and finished without publishing or recording it.
C6_Witness ==
    /\ promise.st = "fulfilled"
    /\ \E t \in Units :
          fetched[t] /\ pc[t] = "done" /\ lastCheck[t] \notin {"absent", "none"}

\* C7: in a run that follows a fulfilled run over the same dependencies, cache
\* and registry, no unit calls npm.commands.install.
C7_RerunHitsCache ==
    (run > 1 /\ prevOk) => \A t \in Units : ~fetched[t]

\* C7 witness: the run after a fulfilled run is fulfilled too, every unit
\* having finished on a cache hit.
C7_Witness ==
    /\ run > 1 /\ prevOk
    /\ Len(deps) > 0
    /\ promise.st = "fulfilled"
    /\ \A t \in Units : pc[t] = "done" /\ ~fetched[t]

\* C8: a unit whose declared version is an exact version and whose cache path
\* under that version existed when it started has called neither npm view nor
\* npm install, is done, and its path is recorded in sourceModules.
C8_FastPath ==
    \A t \in Units :
        (valid(deps[t].ver) /\ atStart[t] \notin {"none", "absent"})
            => /\ ~viewed[t] /\ ~fetched[t]
               /\ pc[t] = "done"
               /\ Recorded(<<deps[t].name, literal(deps[t].ver), arch, modulesAPI>>)

\* C8 witness: a unit started with an exact version whose cache entry existed.
C8_Witness ==
    \E t \in Units : valid(deps[t].ver) /\ atStart[t] = "full" /\ pc[t] = "done"

\* C9: a cache path present when the run started keeps its state and is never
\* written by a unit, and a unit writes only to a path that its latest
\* existence check found absent.
C9_PreexistingUntouched ==
    /\ \A k \in Keys :
          cache0[k] # "absent"
              => cache[k] = cache0[k] /\ \A t \in Units : <<t, k>> \notin written
    /\ \A t \in Units :
          (pc[t] \in {"mkdirs", "rename", "copy"} \/ \E k \in Keys : <<t, k>> \in written)
              => lastCheck[t] = "absent"

\* C9 witness: a run that started with an entry in the cache has published
\* another one.
C9_Witness ==
    /\ \E k \in Keys : cache0[k] = "full"
    /\ \E t \in Units, k \in Keys : <<t, k>> \in written /\ cache[k] = "full"

\* C4 (as claimed): a unit whose call of copyDir found the source missing is
\* completed: as a success when the destination existed, with an error when it
\* did not.
C4_MissingSourceCompletes ==
    \A c \in copyCalls :
        ~c.src =>
            LET at == IF c.site = "fetch" THEN pc[c.unit] ELSE pcP[c.unit]
            IN  IF c.dst THEN at = "done" ELSE at = "failed"

\* the version C10 claims for a declared range and a registry answer
claimedVer(range, info) ==
    IF range.tag = "*" \/ range.tag = "latest" THEN info.version
    ELSE LET ok == {v \in info.versions :
                        satisfies(v, range.sets) /\ v <= info.version}
         IN  IF ok = {} THEN info.version ELSE Max(ok)

\* C10 (as claimed): the version a unit resolved is the latest one for "*" and
\* "latest", else the greatest published version that satisfies the range and
\* is at most the latest, else the latest.
C10_VersionSelection ==
    \A t \in Units :
        ver[t] # 0 => ver[t] = claimedVer(deps[t].ver, registry[deps[t].name])

\* C11: a publish unit is started only when every fetch unit has called back,
\* a cleanup unit only when every publish unit has called back, and after a
\* unit of a stage has failed no unit of a later stage is started.
C11_StagesInSequence ==
    /\ (\E i \in DOMAIN pcP : pcP[i] # "queued") => \A t \in Units : pc[t] = "done"
    /\ (\E j \in DOMAIN pcC : pcC[j] # "queued") =>
          /\ \A t \in Units : pc[t] = "done"
          /\ \A i \in DOMAIN pcP : pcP[i] = "done"
    /\ (\E t \in Units : pc[t] = "failed") => pcP = <<>> /\ pcC = <<>>
    /\ (\E i \in DOMAIN pcP : pcP[i] = "failed") => pcC = <<>>

\* C11 witness: the cleanup stage runs after two fetch units and two publish
\* units have called back.
C11_Witness ==
    /\ \E j \in DOMAIN pcC : pcC[j] = "remove"
    /\ Len(deps) > 1 /\ Len(pcP) > 1
    /\ \A t \in Units : pc[t] = "done"

\* C12 (as claimed): when the promise is rejected with a unit's error, every
\* unit that was started has called back.
C12_RejectWaitsForUnits ==
    (promise.st = "rejected" /\ firstErr # NoErr)
        => InFlight(pc) = {} /\ InFlight(pcP) = {} /\ InFlight(pcC) = {}

\* a step in which no unit is started and no unit but a failing one changes
OnlyFailure(p, q) ==
    /\ DOMAIN q = DOMAIN p
    /\ \A i \in DOMAIN p : q[i] # p[i] => q[i] = "failed"

\* a step that starts no unit
NoneStarted(p, q) ==
    /\ DOMAIN q = DOMAIN p
    /\ \A i \in DOMAIN p : p[i] = "queued" => q[i] = "queued"

\* C12 (amended): the step in which a unit passes the first error rejects the
\* promise with that error at once, starts no unit and leaves the units in
\* flight as they are; no later step of the run starts a unit.
C12_RejectAtOnce ==
    [][/\ (firstErr = NoErr /\ firstErr' # NoErr) =>
             /\ promise'.st = "rejected" /\ promise'.err = firstErr'
             /\ OnlyFailure(pc, pc') /\ OnlyFailure(pcP, pcP') /\ OnlyFailure(pcC, pcC')
       /\ (firstErr # NoErr /\ run' = run) =>
             NoneStarted(pc, pc') /\ NoneStarted(pcP, pcP') /\ NoneStarted(pcC, pcC')]_vars

\* C12 witness: the promise is rejected with the error of a fetch unit while
\* another fetch unit waits for npm.commands.install to call back.
C12_Witness ==
    /\ promise.st = "rejected" /\ promise.err = firstErr
    /\ \E t, u \in Units : pc[t] = "failed" /\ pc[u] = "install"

\* C13 (as claimed): a unit's move or copy into a cache path that was absent
\* when the run started completes only while the path does not hold a package
\* yet, so that one unit at most publishes into it and nothing is written into
\* it afterwards.
C13_PublishedOnce ==
    [][\A t \in Units :
          (pc[t] \in {"rename", "copy"} /\ pc'[t] = "done"
              /\ cache0[pathOf(t)] = "absent")
              => cache[pathOf(t)] # "full"]_vars

\* C13 (amended): a cache path changes only in a step of a unit that stands
\* for it, has found it absent in its check after the fetch and is creating or
\* filling it; and a path that holds a complete package keeps it.
C13_CreatedOnMissAndKept ==
    [][\A k \in Keys :
          /\ cache[k] = "full" => cache'[k] = "full"
          /\ cache'[k] # cache[k] =>
                \E t \in Units :
                    /\ ver[t] # 0 /\ cacheModuleDir(deps[t].name, ver[t]) = k
                    /\ lastCheck[t] = "absent"
                    /\ pc[t] \in {"mkdirs", "rename", "copy"}
                    /\ pc'[t] # pc[t]]_vars

\* C13 witness: two units stand for the same path; one has moved its package
\* onto it and the other has completed a copy into it.
C13_Witness ==
    \E t, u \in Units :
        /\ t # u /\ ver[t] # 0 /\ ver[u] # 0 /\ pathOf(t) = pathOf(u)
        /\ pc[t] = "done" /\ scratch[t] = "moved"
        /\ pc[u] = "done" /\ fetched[u] /\ lastCheck[u] = "absent"
        /\ scratch[u] = "built"
        /\ cache[pathOf(t)] = "full"

\* the fetch stage has called its final callback without an error
FetchSucceeded ==
    /\ phase \in {"publish", "cleanup", "end"}
    /\ Len(deps) > 0
    /\ \A t \in Units : pc[t] = "done"

\* C14 (as claimed): when the fetch stage has completed without an error, a
\* cache path that several units of the run stand for holds a complete
\* package.
C14_OneValidEntry ==
    FetchSucceeded =>
        \A t, u \in Units :
            (t # u /\ pathOf(t) = pathOf(u)) => cache[pathOf(t)] = "full"

\* C15: a unit's scratch directory is in cleanUpDirs from the step that
\* allocates it, before npm.commands.install is called; a cleanup unit is
\* started only when every publish unit has succeeded; when the run is
\* fulfilled no scratch directory of the run exists; and when a fetch or
\* publish unit has failed no scratch directory has been removed.
C15_ScratchLifecycle ==
    /\ \A t \in Units :
          (scratch[t] # "none" \/ fetched[t])
              => \E j \in DOMAIN cleanUpDirs : cleanUpDirs[j] = t
    /\ (\E j \in DOMAIN pcC : pcC[j] # "queued")
          => \A i \in DOMAIN pcP : pcP[i] = "done"
    /\ promise.st = "fulfilled" => \A t \in Units : ~tmpExists(scratch, t)
    /\ ((\E t \in Units : pc[t] = "failed") \/ (\E i \in DOMAIN pcP : pcP[i] = "failed"))
          => \A t \in Units : scratch[t] # "removed"

\* C15 witness: a fulfilled run that allocated a scratch directory for each of
\* two units and has removed both.
C15_Witness ==
    /\ promise.st = "fulfilled"
    /\ Len(cleanUpDirs) > 1
    /\ \A j \in DOMAIN cleanUpDirs : scratch[cleanUpDirs[j]] = "removed"

\* copyDir was called for the fetch unit t with a source that existed
CopyAttempted(calls_, t) ==
    \E c \in calls_ : c.site = "fetch" /\ c.unit = t /\ c.src

\* the step pushed dir to sourceModules before anything a unit started later
\* in the same step has pushed
Pushed(old, new, dir) ==
    /\ Len(new) > Len(old)
    /\ SubSeq(new, 1, Len(old)) = old
    /\ new[Len(old) + 1] = dir

\* C16: a rename that succeeds leaves the package at the cache path and no
\* source, calls copyDir not at all and records the path; a rename that fails
\* with the source in place is followed by a copy into the cache path; the
\* copy leaves the source in place, and the unit succeeds and records the path
\* if the copy succeeds, and fails without recording it otherwise.
C16_MoveThenCopy ==
    [][\A t \in Units :
          LET dir == cacheModuleDir(deps[t].name, ver[t])
          IN  /\ (pc[t] = "rename" /\ pc'[t] = "done") =>
                    /\ cache'[dir] = "full"
                    /\ ~srcExists(scratch', t)
                    /\ \A c \in copyCalls' : ~(c.site = "fetch" /\ c.unit = t)
                    /\ Pushed(sourceModules, sourceModules', dir)
              /\ (pc[t] = "rename" /\ pc'[t] \notin {"rename", "done"}
                     /\ srcExists(scratch, t)) =>
                    /\ pc'[t] = "copy"
                    /\ CopyAttempted(copyCalls', t)
                    /\ srcExists(scratch', t)
                    /\ sourceModules' = sourceModules
              /\ (pc[t] = "copy" /\ pc'[t] # "copy") =>
                    /\ srcExists(scratch', t)
                    /\ \/ /\ pc'[t] = "done"
                          /\ cache'[dir] = "full"
                          /\ Pushed(sourceModules, sourceModules', dir)
                       \/ /\ pc'[t] = "failed"
                          /\ sourceModules' = sourceModules]_vars

\* C16 witness: a unit whose rename failed has completed the copy and recorded
\* the cache path, with the source still in its scratch directory.
C16_Witness ==
    \E t \in Units :
        /\ CopyAttempted(copyCalls, t)
        /\ pc[t] = "done" /\ scratch[t] = "built"
        /\ Recorded(pathOf(t)) /\ cache[pathOf(t)] = "full"

\* C17 (as claimed): when every external operation the run started has called
\* back and none is left to call back, the promise is settled.
C17_SettledWhenQuiescent ==
    Quiescent => promise.st # "pending"

\* C18 (as claimed): the results a run is fulfilled with hold an entry for the
\* name of every declared dependency.
C18_ResultHasEveryDependency ==
    promise.st = "fulfilled"
        => \A t \in Units : promise.results[deps[t].name] # 0

\* C19 (as claimed): while the publish stage runs, every path of sourceModules
\* holds a complete package.
C19_RecordedPathsComplete ==
    phase = "publish"
        => \A i \in DOMAIN sourceModules : cache[sourceModules[i]] = "full"

\* C20: no unit of a stage has called its completion callback more than once,
\* and fulfill and reject have been called at most once between them.
C20_AtMostOnce ==
    /\ \A x \in BagToSet(cbs) : CopiesIn(x, cbs) <= 1
    /\ calls.fulfill + calls.reject <= 1

\* C20 witness: the run was rejected with the error of a fetch unit and a unit
\* that was in flight then has called back since.
C20_Witness ==
    /\ promise.st = "rejected"
    /\ calls.reject = 1 /\ calls.fulfill = 0
    /\ \E t, u \in Units :
          /\ t # u /\ firstErr = <<"install", t>>
          /\ <<"fetch", u>> \in late
          /\ CopiesIn(<<"fetch", t>>, cbs) = 1 /\ CopiesIn(<<"fetch", u>>, cbs) = 1

====
